---- MODULE Spec2Model ----
(***************************************************************************)
(* Model of SqliteDb (sqlitecls.py): a handle that owns one sqlite3        *)
(* connection and cursor, opened by __enter__ (which loads the init script *)
(* when the database has no tables) and closed by __exit__.                *)
(*                                                                         *)
(* The sqlite3 engine is modelled by what the handle can observe of it:    *)
(* the committed content of the database file, the working content of the  *)
(* handle's connection (which differs from the committed content while a   *)
(* transaction is open), the engine connections that are not yet closed    *)
(* (the one the handle refers to, and those it dropped without closing),   *)
(* and the holder of the file's write lock.                                *)
(***************************************************************************)
EXTENDS Integers, Sequences, FiniteSets

\* ------------------------------------------------------------------ bounds
MaxRows == 2
MaxOrphans == 1
MaxInitRuns == 2

\* ------------------------------------------------------------- vocabulary
\* Python's None, and the objects self.connection and self.cursor refer to
NULL == "None"
CONN == "Connection"
CURSOR == "Cursor"

\* what the caller passes as db_file_name: nothing at all, ":memory:", a
\* path that can be created, a path that sqlite3.connect cannot open
NoLoc == "<missing>"
MemLoc == ":memory:"
FileLoc == "testing_sqlite.db"
BadLoc == "/no/such/dir/x.db"
Locations == {MemLoc, FileLoc, BadLoc}

\* what the caller passes as init_script_file_name
NoScript == "None"
ScriptNames == {NoScript, "points.sql", "nop.sql", "bad.sql", "missing.sql"}

Tables == {"t1", "t2"}

Create(t) == [k |-> "create", t |-> t]
Insert(t) == [k |-> "insert", t |-> t]
Drop(t) == [k |-> "drop", t |-> t]
Nop == [k |-> "nop", t |-> "-"]
Bad == [k |-> "bad", t |-> "-"]

\* statements a caller submits one at a time
CallerStmts == {Create(t) : t \in Tables} \cup {Insert("t1"), Drop("t1")}

\* the content of the script files: points.sql creates a table and fills it,
\* nop.sql creates no table, bad.sql has an invalid second statement,
\* missing.sql cannot be read
ScriptFile(name) ==
    CASE name = "points.sql" -> <<Create("t1"), Insert("t1")>>
      [] name = "nop.sql" -> <<Nop>>
      [] name = "bad.sql" -> <<Create("t1"), Bad, Insert("t1")>>
      [] OTHER -> <<>>

Readable(name) == name \in {"points.sql", "nop.sql", "bad.sql"}

\* ------------------------------------------------------- database content
\* a database is the sequence of its tables in catalog (creation) order
EmptyDb == <<>>

HasTable(db, t) == \E i \in 1..Len(db) : db[i].name = t

IndexOf(db, t) == CHOOSE i \in 1..Len(db) : db[i].name = t

RowsOf(db, t) == IF HasTable(db, t) THEN db[IndexOf(db, t)].rows ELSE 0

\* Q_COUNT_TABLES
CountTables(db) == Len(db)

\* a variant of Q_TABLES that yields one row only
TableNames_FirstOnly(db) == [i \in 1..(IF Len(db) > 0 THEN 1 ELSE 0) |-> db[i].name]

\* Q_TABLES
TableNames(db) == [i \in 1..Len(db) |-> db[i].name]

RemoveAt(db, i) == [j \in 1..(Len(db) - 1) |-> IF j < i THEN db[j] ELSE db[j + 1]]

IsWrite(s) == s.k \in {"create", "insert", "drop"}

\* one statement applied to a database content by the engine
ApplyStmt(db, s) ==
    CASE s.k = "create" ->
           IF HasTable(db, s.t) THEN [ok |-> FALSE, db |-> db]
           ELSE [ok |-> TRUE, db |-> Append(db, [name |-> s.t, rows |-> 0])]
      [] s.k = "insert" ->
           IF ~HasTable(db, s.t) THEN [ok |-> FALSE, db |-> db]
           ELSE [ok |-> TRUE,
                 db |-> [db EXCEPT ![IndexOf(db, s.t)].rows = @ + 1]]
      [] s.k = "drop" ->
           IF ~HasTable(db, s.t) THEN [ok |-> FALSE, db |-> db]
           ELSE [ok |-> TRUE, db |-> RemoveAt(db, IndexOf(db, s.t))]
      [] s.k = "nop" -> [ok |-> TRUE, db |-> db]
      [] OTHER -> [ok |-> FALSE, db |-> db]

\* a statement is refused by the engine: it is in error, or it writes while
\* another connection holds the write lock
StmtFails(db, s, locked) == ~ApplyStmt(db, s).ok \/ (locked /\ IsWrite(s))

\* the kinds of the first n statements of a script
Kinds(stmts, n) == [i \in 1..n |-> stmts[i].k]

\* a variant of cursor.executescript that goes on after a failing statement
RECURSIVE RunScript_KeepsGoing(_, _, _)
RunScript_KeepsGoing(db, stmts, locked) ==
    IF stmts = <<>> THEN [ok |-> TRUE, db |-> db, done |-> 0]
    ELSE LET failed == StmtFails(db, Head(stmts), locked)
             next == IF failed THEN db ELSE ApplyStmt(db, Head(stmts)).db
             rest == RunScript_KeepsGoing(next, Tail(stmts), locked)
         IN [ok |-> ~failed /\ rest.ok, db |-> rest.db,
             done |-> rest.done + (IF failed THEN 0 ELSE 1)]

\* cursor.executescript: the statements run in file order, each one committed
\* on its own, and the first failing statement ends the run; a statement that
\* writes fails when another connection holds the write lock
RECURSIVE RunScript(_, _, _)
RunScript(db, stmts, locked) ==
    IF stmts = <<>> THEN [ok |-> TRUE, db |-> db, done |-> 0]
    ELSE LET r == ApplyStmt(db, Head(stmts))
         IN IF ~r.ok \/ (locked /\ IsWrite(Head(stmts)))
            THEN [ok |-> FALSE, db |-> db, done |-> 0]
            ELSE LET rest == RunScript(r.db, Tail(stmts), locked)
                 IN [ok |-> rest.ok, db |-> rest.db, done |-> rest.done + 1]

\* ------------------------------------------------------------------ state
VARIABLES
    constructed,            \* a SqliteDb object exists
    db_file_name,           \* self.db_file_name
    init_script_file_name,  \* self.init_script_file_name
    connection,             \* self.connection: CONN or NULL
    cursor,                 \* self.cursor: CURSOR or NULL
    connLive,               \* the engine connection of the handle is not closed
    orphans,                \* unclosed engine connections the handle dropped
    file,                   \* committed content of the database file
    mem,                    \* committed content of the current in-memory db
    work,                   \* content as seen through the handle's connection
    txn,                    \* the handle's connection has a transaction open
    applied,                \* pragma settings in force on the handle's connection
    wlock,                  \* holder of the file's write lock: "none", "self"
                            \* (the handle's connection) or "orphan"
    initRuns,               \* times __enter__ ran the init script on the file
    fileWriter,             \* who has written the file: "none", the one init
                            \* script that __enter__ ran on it, or "other"
    pc,                     \* position of the caller's `with` statement
    last                    \* the last operation: name, outcome, engine calls

vars == <<constructed, db_file_name, init_script_file_name, connection, cursor,
          connLive, orphans, file, mem, work, txn, applied, wlock, initRuns,
          fileWriter, pc, last>>

handleVars == <<constructed, db_file_name, init_script_file_name>>
engineVars == <<connLive, orphans, file, mem, work, txn, applied, wlock>>

\* record of an operation: `held` is self.connection before it ran, `steps`
\* the calls it made into sqlite3 (and the file system) in order, `ran`
\* whether it handed the init script to executescript, `value` what it
\* returned (as a sequence of strings)
Op(name, result, held, steps, ran, value) ==
    [op |-> name, result |-> result, held |-> held, steps |-> steps,
     ran |-> ran, value |-> value]

Init ==
    /\ constructed = FALSE
    /\ db_file_name = NoLoc
    /\ init_script_file_name = NoScript
    /\ connection = NULL
    /\ cursor = NULL
    /\ connLive = FALSE
    /\ orphans = 0
    /\ file = EmptyDb
    /\ mem = EmptyDb
    /\ work = EmptyDb
    /\ txn = FALSE
    /\ applied = {}
    /\ wlock = "none"
    /\ initRuns = 0
    /\ fileWriter = "none"
    /\ pc = "idle"
    /\ last = Op("none", "ok", NULL, <<>>, FALSE, <<>>)

\* committed content of the database the handle's connection is attached to
Committed == IF db_file_name = MemLoc THEN mem ELSE file

\* another connection holds the write lock of the handle's database
Locked == db_file_name = FileLoc /\ wlock = "orphan"

\* engine connections created and not yet closed
LiveCount == orphans + (IF connLive THEN 1 ELSE 0)

\* ------------------------------------------------------------ construction
\* SqliteDb(db_file_name, init_script_file_name=None): db_file_name has no
\* default, so a call without it raises TypeError and no object exists
InitResult(loc) == IF loc = NoLoc THEN "TypeError" ELSE "ok"

\* A new handle replaces a closed one. The in-memory database and the file
\* never interact, so in-memory handles are explored while the file is
\* still untouched.
Construct(loc, script) ==
    /\ pc = "idle"
    /\ connection = NULL
    /\ loc = MemLoc => file = EmptyDb /\ initRuns = 0
    /\ IF InitResult(loc) = "ok"
       THEN /\ constructed' = TRUE
            /\ db_file_name' = loc
            /\ init_script_file_name' = script
            /\ connection' = NULL
            /\ cursor' = NULL
       ELSE UNCHANGED <<handleVars, connection, cursor>>
    /\ last' = Op("Construct", InitResult(loc), connection, <<>>, FALSE, <<>>)
    /\ UNCHANGED <<engineVars, initRuns, fileWriter, pc>>

\* where the caller's code continues after a call made outside or inside the
\* body of a `with` statement: a failure inside the body is caught by the
\* body or propagates out of it
NextPc(ok) == IF pc = "body" /\ ~ok THEN {"body", "raised"} ELSE {pc}

\* ---------------------------------------------------------------- pragmas
\* the settings named by the class constants PRAGMAS and
\* PRAGMAS_PER_CONNECTION
PRAGMAS ==
    {"journal_mode = WAL", "cache_size = -100000", "synchronous = EXTRA",
     "temp_store = memory"}

PRAGMAS_PER_CONNECTION == {"encoding = 'UTF-8'", "foreign_keys = ON"}

\* of these settings, the one a connection has when sqlite3.connect returns
EngineDefaults == {"encoding = 'UTF-8'"}

\* -------------------------------------------------------------- __enter__
\* a variant of line 58 that does not look at the table count
ShouldInit_IgnoresEmptiness(script, isEmpty) == script # NoScript

\* line 58: the condition under which __enter__ loads the init script
\* a variant of line 58 without the `self.init_script_file_name and` test
ShouldInit_IgnoresScript(script, isEmpty) == isEmpty

ShouldInit(script, isEmpty) == script # NoScript /\ isEmpty

\* a variant of execute_file that runs only the first statement of the file
ExecuteFile_FirstStatementOnly(db, name, locked) ==
    IF ~Readable(name)
    THEN [result |-> "FileNotFoundError", db |-> db, ran |-> FALSE,
          steps |-> <<"open_script", name>>]
    ELSE LET r == RunScript(db, SubSeq(ScriptFile(name), 1, 1), locked)
         IN [result |-> IF r.ok THEN "ok" ELSE "OperationalError",
             db |-> r.db, ran |-> TRUE,
             steps |-> <<"open_script", name, "executescript">>
                       \o Kinds(SubSeq(ScriptFile(name), 1, 1), r.done)]

\* execute_file: read the file, hand its text to cursor.executescript
ExecuteFile(db, name, locked) ==
    IF ~Readable(name)
    THEN [result |-> "FileNotFoundError", db |-> db, ran |-> FALSE,
          steps |-> <<"open_script", name>>]
    ELSE LET r == RunScript(db, ScriptFile(name), locked)
         IN [result |-> IF r.ok THEN "ok" ELSE "OperationalError",
             db |-> r.db, ran |-> TRUE,
             steps |-> <<"open_script", name, "executescript">>
                       \o Kinds(ScriptFile(name), r.done)]

\* __enter__, called directly (scoped = FALSE) or by a `with` statement.
\* self.connection and self.cursor are overwritten without a close: the
\* connection an open handle held before is garbage, and whether the runtime
\* has collected (and so closed) it by the end of the call is not determined
\* by the code (keep).
Enter(name, scoped) ==
    /\ constructed
    /\ IF db_file_name = BadLoc
       THEN /\ last' = Op(name, "OperationalError", connection, <<"connect">>,
                          FALSE, <<>>)
            /\ pc' \in (IF scoped THEN {"idle"} ELSE NextPc(FALSE))
            /\ UNCHANGED <<handleVars, connection, cursor, engineVars, initRuns,
                           fileWriter>>
       ELSE \E keep \in (IF connLive THEN BOOLEAN ELSE {FALSE}) :
            LET wl == CASE wlock = "self" -> IF keep THEN "orphan" ELSE "none"
                        [] OTHER -> wlock
                base == IF db_file_name = MemLoc THEN EmptyDb ELSE file
                locked == db_file_name = FileLoc /\ wl = "orphan"
                script == init_script_file_name
                doInit == ShouldInit(script, CountTables(base) = 0)
                x == IF doInit THEN ExecuteFile(base, script, locked)
                     ELSE [result |-> "ok", db |-> base, ran |-> FALSE,
                           steps |-> <<>>]
                counted == x.ran /\ db_file_name = FileLoc
            IN /\ keep => orphans < MaxOrphans
               /\ counted => initRuns < MaxInitRuns
               /\ connection' = CONN
               /\ cursor' = CURSOR
               /\ connLive' = TRUE
               /\ applied' = EngineDefaults
               /\ orphans' = IF keep THEN orphans + 1 ELSE orphans
               /\ work' = x.db
               /\ file' = IF db_file_name = FileLoc THEN x.db ELSE file
               /\ mem' = IF db_file_name = MemLoc THEN x.db ELSE EmptyDb
               /\ txn' = FALSE
               /\ wlock' = wl
               /\ initRuns' = IF counted THEN initRuns + 1 ELSE initRuns
               /\ fileWriter' = CASE ~(db_file_name = FileLoc /\ x.db # file)
                                       -> fileWriter
                                   [] fileWriter \in {"none", script} -> script
                                   [] OTHER -> "other"
               /\ last' = Op(name, x.result, connection,
                             <<"connect", "cursor">>
                               \o (IF script # NoScript THEN <<"count_tables">>
                                   ELSE <<>>)
                               \o x.steps,
                             x.ran, <<>>)
               /\ pc' \in (IF scoped
                           THEN {IF x.result = "ok" THEN "body" ELSE "idle"}
                           ELSE NextPc(x.result = "ok"))
               /\ UNCHANGED handleVars

Open == pc \in {"idle", "body"} /\ Enter("Open", FALSE)

ScopeEnter == pc = "idle" /\ Enter("ScopeEnter", TRUE)

\* --------------------------------------------------------------- __exit__
\* a variant of lines 64-66 that closes the cursor and keeps the reference
ExitCursor_KeepsCursor(cur) ==
    IF cur # NULL
    THEN [result |-> "ok", cursor |-> cur, steps |-> <<"cursor.close">>]
    ELSE [result |-> "ok", cursor |-> cur, steps |-> <<>>]

\* a variant of lines 64-66 without the `if self.cursor` test
ExitCursor_Unguarded(cur) ==
    IF cur # NULL
    THEN [result |-> "ok", cursor |-> NULL, steps |-> <<"cursor.close">>]
    ELSE [result |-> "AttributeError", cursor |-> cur, steps |-> <<>>]

\* lines 64-66
ExitCursor(cur) ==
    IF cur # NULL
    THEN [result |-> "ok", cursor |-> NULL, steps |-> <<"cursor.close">>]
    ELSE [result |-> "ok", cursor |-> cur, steps |-> <<>>]

\* a variant of lines 67-69 that forgets the connection without closing it
ExitConnection_NoClose(conn, isLive) ==
    [result |-> "ok", connection |-> NULL, live |-> isLive, steps |-> <<>>]

\* lines 67-69
ExitConnection(conn, isLive) ==
    IF conn # NULL
    THEN [result |-> "ok", connection |-> NULL, live |-> FALSE,
          steps |-> <<"connection.close">>]
    ELSE [result |-> "ok", connection |-> conn, live |-> isLive, steps |-> <<>>]

\* a variant of __exit__ that runs lines 67-69 before lines 64-66: the engine
\* refuses to close a cursor whose connection is closed, so the cursor stays
Exit_ConnectionFirst(name, scoped) ==
    LET b == ExitConnection(connection, connLive)
        refused == cursor # NULL /\ connLive /\ ~b.live
        a == IF refused
             THEN [result |-> "ProgrammingError", cursor |-> cursor, steps |-> <<>>]
             ELSE ExitCursor(cursor)
        closed == connLive /\ ~b.live
        result == IF scoped /\ a.result = "ok" /\ pc = "raised"
                  THEN "propagated" ELSE a.result
    IN /\ constructed
       /\ cursor' = a.cursor
       /\ connection' = b.connection
       /\ connLive' = b.live
       /\ orphans' = orphans
       /\ applied' = IF closed THEN {} ELSE applied
       /\ work' = IF closed THEN EmptyDb ELSE work
       /\ mem' = IF closed THEN EmptyDb ELSE mem
       /\ txn' = IF closed THEN FALSE ELSE txn
       /\ wlock' = IF wlock = "self" /\ closed THEN "none" ELSE wlock
       /\ last' = Op(name, result, connection, b.steps \o a.steps, FALSE, <<>>)
       /\ pc' \in (IF scoped THEN {"idle"} ELSE NextPc(a.result = "ok"))
       /\ UNCHANGED <<handleVars, file, initRuns, fileWriter>>

\* __exit__, called directly or by a `with` statement (scoped); closing the
\* engine connection discards what its transaction has not committed, and an
\* engine connection that is dropped without a close is left to the runtime
Exit(name, scoped) ==
    LET a == ExitCursor(cursor)
        b == IF a.result = "ok" THEN ExitConnection(connection, connLive)
             ELSE [result |-> a.result, connection |-> connection,
                   live |-> connLive, steps |-> <<>>]
        closed == connLive /\ ~b.live
        dropped == b.live /\ b.connection = NULL
        result == IF scoped /\ b.result = "ok" /\ pc = "raised"
                  THEN "propagated" ELSE b.result
    IN /\ constructed
       /\ cursor' = a.cursor
       /\ connection' = b.connection
       /\ connLive' = (b.live /\ ~dropped)
       /\ orphans' = IF dropped THEN orphans + 1 ELSE orphans
       /\ applied' = IF closed \/ dropped THEN {} ELSE applied
       /\ work' = IF closed \/ dropped THEN EmptyDb ELSE work
       /\ mem' = IF closed \/ dropped THEN EmptyDb ELSE mem
       /\ txn' = IF closed \/ dropped THEN FALSE ELSE txn
       /\ wlock' = CASE wlock = "self" /\ closed -> "none"
                     [] wlock = "self" /\ dropped -> "orphan"
                     [] OTHER -> wlock
       /\ last' = Op(name, result, connection, a.steps \o b.steps, FALSE, <<>>)
       /\ pc' \in (IF scoped THEN {"idle"} ELSE NextPc(b.result = "ok"))
       /\ UNCHANGED <<handleVars, file, initRuns, fileWriter>>

Close == pc \in {"idle", "body"} /\ Exit("Close", FALSE)

\* the body of the `with` statement raises
BodyRaise ==
    /\ pc = "body"
    /\ pc' = "raised"
    /\ last' = Op("BodyRaise", "raised", connection, <<>>, FALSE, <<>>)
    /\ UNCHANGED <<handleVars, connection, cursor, engineVars, initRuns,
                           fileWriter>>

\* the `with` statement is left: by the end of the body, by a return out of
\* it, or by a failure propagating out of it
ScopeExit == pc \in {"body", "raised"} /\ Exit("ScopeExit", TRUE)

\* ------------------------------------------------------ statement methods
\* the statement texts of the class
Q_COUNT_TABLES == [k |-> "count", t |-> "-"]
Q_TABLES == [k |-> "tables", t |-> "-"]
Q_START == [k |-> "start", t |-> "-"]
Q_ROLLBACK == [k |-> "rollback", t |-> "-"]
Q_COMMIT == [k |-> "commit", t |-> "-"]
Q_VACUUM == [k |-> "vacuum", t |-> "-"]

Unchanged(ok) ==
    [ok |-> ok, work |-> work, committed |-> Committed, txn |-> txn,
     wlock |-> wlock]

\* the write lock after the handle's connection wrote inside a transaction,
\* and after its transaction ended
LockTaken == IF db_file_name = FileLoc THEN "self" ELSE wlock
LockReleased == IF wlock = "self" THEN "none" ELSE wlock

\* cursor.execute(s) on the handle's connection, as sqlite3 runs it with its
\* default isolation level: a transaction is begun before an INSERT when none
\* is open, other statements run in the open transaction or else commit on
\* their own; COMMIT and ROLLBACK outside a transaction, VACUUM inside one
\* and 'START TRANSACTION' (no statement of SQLite) are errors
Exec(s) ==
    LET r == ApplyStmt(work, s)
    IN CASE s.k \in {"count", "tables", "nop"} -> Unchanged(TRUE)
         [] s.k = "insert" ->
              IF ~r.ok THEN Unchanged(FALSE)
              ELSE IF Locked THEN [Unchanged(FALSE) EXCEPT !.txn = TRUE]
              ELSE [ok |-> TRUE, work |-> r.db, committed |-> Committed,
                    txn |-> TRUE, wlock |-> LockTaken]
         [] s.k \in {"create", "drop"} ->
              IF ~r.ok \/ Locked THEN Unchanged(FALSE)
              ELSE IF txn
              THEN [ok |-> TRUE, work |-> r.db, committed |-> Committed,
                    txn |-> TRUE, wlock |-> LockTaken]
              ELSE [ok |-> TRUE, work |-> r.db, committed |-> r.db,
                    txn |-> FALSE, wlock |-> wlock]
         [] s.k = "commit" ->
              IF ~txn THEN Unchanged(FALSE)
              ELSE [ok |-> TRUE, work |-> work, committed |-> work,
                    txn |-> FALSE, wlock |-> LockReleased]
         [] s.k = "rollback" ->
              IF ~txn THEN Unchanged(FALSE)
              ELSE [ok |-> TRUE, work |-> Committed, committed |-> Committed,
                    txn |-> FALSE, wlock |-> LockReleased]
         [] s.k = "vacuum" -> Unchanged(~txn /\ ~Locked)
         [] OTHER -> Unchanged(FALSE)

\* a variant in which a closed handle still has a cursor to call
CursorAttr_NoCheck(cur) == "ok"

\* self.cursor.<method>: an attribute of None cannot be looked up
CursorAttr(cur) == IF cur = NULL THEN "AttributeError" ELSE "ok"

\* a variant in which is_empty_db compares the count with `!= 0`
Returned_NonZero(s, ok) ==
    CASE ~ok -> <<>>
      [] s.k = "count" -> IF CountTables(work) # 0 THEN <<"True">> ELSE <<"False">>
      [] s.k = "tables" -> TableNames(work)
      [] OTHER -> <<>>

\* what a method returns to the caller
Returned(s, ok) ==
    CASE ~ok -> <<>>
      [] s.k = "count" -> IF CountTables(work) = 0 THEN <<"True">> ELSE <<"False">>
      [] s.k = "tables" -> TableNames(work)
      [] OTHER -> <<>>

\* the caller has a handle and is not unwinding out of a `with` body
Callable == constructed /\ pc \in {"idle", "body"}

\* a method of the handle that is self.cursor.execute(s)
CursorExecute(name, s) ==
    /\ IF CursorAttr(cursor) # "ok"
       THEN /\ last' = Op(name, CursorAttr(cursor), connection, <<>>, FALSE, <<>>)
            /\ pc' \in NextPc(FALSE)
            /\ UNCHANGED <<engineVars>>
       ELSE LET e == Exec(s)
            IN /\ work' = e.work
               /\ file' = IF db_file_name = MemLoc THEN file ELSE e.committed
               /\ mem' = IF db_file_name = MemLoc THEN e.committed ELSE mem
               /\ txn' = e.txn
               /\ wlock' = e.wlock
               /\ last' = Op(name, IF e.ok THEN "ok" ELSE "OperationalError",
                             connection, <<s.k>>, FALSE, Returned(s, e.ok))
               /\ pc' \in NextPc(e.ok)
               /\ UNCHANGED <<connLive, orphans, applied>>
    /\ fileWriter' = IF file' # file THEN "other" ELSE fileWriter
    /\ UNCHANGED <<handleVars, connection, cursor, initRuns>>

IsEmpty == Callable /\ CursorExecute("IsEmpty", Q_COUNT_TABLES)

StartTransaction == Callable /\ CursorExecute("StartTransaction", Q_START)

Rollback == Callable /\ CursorExecute("Rollback", Q_ROLLBACK)

Commit == Callable /\ CursorExecute("Commit", Q_COMMIT)

ListTableNames == Callable /\ CursorExecute("ListTableNames", Q_TABLES)

\* a statement of the caller, submitted through the handle's cursor
Execute(s) ==
    /\ Callable
    /\ s.k = "insert" => RowsOf(work, s.t) < MaxRows
    /\ CursorExecute("Execute", s)

\* the script files a caller hands to execute_file
CallerScripts == {"points.sql", "bad.sql", "missing.sql"}

\* execute_file called by the caller: executescript commits the open
\* transaction before it runs the script
ExecuteScript(name) ==
    /\ Callable
    /\ name # NoScript
    /\ IF Readable(name) /\ CursorAttr(cursor) # "ok"
       THEN /\ last' = Op("ExecuteScript", CursorAttr(cursor), connection,
                          <<"open_script", name>>, FALSE, <<>>)
            /\ pc' \in NextPc(FALSE)
            /\ UNCHANGED <<engineVars>>
       ELSE LET x == ExecuteFile(work, name, Locked)
            IN /\ work' = x.db
               /\ file' = IF x.ran /\ db_file_name # MemLoc THEN x.db ELSE file
               /\ mem' = IF x.ran /\ db_file_name = MemLoc THEN x.db ELSE mem
               /\ txn' = IF x.ran THEN FALSE ELSE txn
               /\ wlock' = IF x.ran THEN LockReleased ELSE wlock
               /\ last' = Op("ExecuteScript", x.result, connection, x.steps,
                             x.ran, <<>>)
               /\ pc' \in NextPc(x.result = "ok")
               /\ UNCHANGED <<connLive, orphans, applied>>
    /\ fileWriter' = IF file' # file THEN "other" ELSE fileWriter
    /\ UNCHANGED <<handleVars, connection, cursor, initRuns>>

\* the runtime collects (and so closes) the connections the handle dropped
Collect ==
    /\ orphans > 0
    /\ orphans' = 0
    /\ wlock' = IF wlock = "orphan" THEN "none" ELSE wlock
    /\ last' = Op("Collect", "ok", connection, <<>>, FALSE, <<>>)
    /\ UNCHANGED <<handleVars, connection, cursor, connLive, file, mem, work,
                   txn, applied, initRuns, fileWriter, pc>>

\* ----------------------------------------------------------- specification
Next ==
    \/ \E loc \in Locations \cup {NoLoc}, script \in ScriptNames :
          Construct(loc, script)
    \/ Open
    \/ Close
    \/ ScopeEnter
    \/ BodyRaise
    \/ ScopeExit
    \/ IsEmpty
    \/ StartTransaction
    \/ Rollback
    \/ Commit
    \/ ListTableNames
    \/ \E s \in CallerStmts : Execute(s)
    \/ \E name \in CallerScripts : ExecuteScript(name)
    \/ Collect

Spec == Init /\ [][Next]_vars

\* ------------------------------------------------------------------ claims
EnterOps == {"Open", "ScopeEnter"}

\* the database __enter__ connects to, before it looks at it
AtConnect == IF db_file_name = MemLoc THEN EmptyDb ELSE file

\* what each script leaves in a database that was empty
Bootstrapped(script) ==
    CASE script = "points.sql" -> <<[name |-> "t1", rows |-> 1]>>
      [] OTHER -> EmptyDb

\* C1: an Open() on a handle with an init script that finds one or more
\* tables in the database succeeds without running the script and leaves the
\* database as it found it.
C1_NoReinit ==
    [][(/\ last'.op \in EnterOps
        /\ init_script_file_name # NoScript
        /\ db_file_name # BadLoc
        /\ CountTables(AtConnect) > 0)
       => (/\ ~last'.ran
           /\ last'.result = "ok"
           /\ file' = file
           /\ work' = file
           /\ initRuns' = initRuns)]_vars

\* C1 witness: points.sql was run once, one more row was committed, the
\* handle was closed and reopened: the table holds the script's rows plus one.
C1_Witness ==
    /\ last.op = "Open"
    /\ last.held = NULL
    /\ init_script_file_name = "points.sql"
    /\ ~last.ran
    /\ initRuns = 1
    /\ RowsOf(work, "t1") = RowsOf(Bootstrapped("points.sql"), "t1") + 1

\* C2: over the lifetime of the database file the init script is executed at
\* most once.
C2_InitAtMostOnce == initRuns <= 1

C4_Nullity ==
    /\ connection # NULL <=> connLive
    /\ cursor = NULL <=> connection = NULL

\* C4 witness: the last operation failed on an open handle.
C4_Witness ==
    /\ last.result \notin {"ok", "propagated"}
    /\ last.op \in {"Execute", "Commit", "Open"}
    /\ last.held # NULL
    /\ connection # NULL

\* C5: after an Open() that failed, no engine connection it created is open.
C5_FailedOpenLeavesNoConnection ==
    (last.op \in EnterOps /\ last.result # "ok") => ~connLive

\* C6: however the body of a scoped acquisition is left, the handle is
\* closed by the exit (connection and cursor null) and its engine connection
\* is closed, not merely forgotten.
C6_ScopeReleases ==
    [][(pc \in {"body", "raised"} /\ pc' = "idle")
       => (/\ last'.op = "ScopeExit"
           /\ connection' = NULL
           /\ cursor' = NULL
           /\ ~connLive'
           /\ orphans' = orphans)]_vars

\* C6 witness: a scope was left by a failure of its body while the handle
\* was open.
C6_Witness ==
    /\ last.op = "ScopeExit"
    /\ last.result = "propagated"
    /\ last.held # NULL
    /\ last.steps = <<"cursor.close", "connection.close">>
    /\ connection = NULL

\* C7: Close() on a closed handle raises nothing, calls nothing and changes
\* nothing.
C7_CloseIdempotent ==
    [][(last'.op = "Close" /\ connection = NULL /\ cursor = NULL)
       => (/\ last'.result = "ok"
           /\ last'.steps = <<>>
           /\ pc' = pc
           /\ UNCHANGED <<handleVars, connection, cursor, engineVars,
                          initRuns, fileWriter>>)]_vars

\* C7 witness: Close() has run on a handle that was closed before, after the
\* file had been written through it.
C7_Witness ==
    /\ last.op = "Close"
    /\ last.held = NULL
    /\ last.result = "ok"
    /\ file # EmptyDb

\* C8: every construction, with no location or with one, succeeds and gives
\* a closed handle.
C8_ConstructSucceeds ==
    last.op = "Construct"
      => (last.result = "ok" /\ constructed /\ connection = NULL /\ cursor = NULL)

StatementOps == {"IsEmpty", "StartTransaction", "Commit", "Rollback"}

C10_PragmasApplied ==
    (last.op \in EnterOps /\ last.result = "ok")
      => (PRAGMAS \cup PRAGMAS_PER_CONNECTION) \subseteq applied

\* the tables the handle's connection sees
TablesSeen(db) == {t \in Tables : HasTable(db, t)}

\* C11: on an open handle IsEmpty() returns true exactly when the database
\* holds no table; it is true right after an Open() without init script on
\* a location with no tables, and one successful CREATE TABLE on a database
\* without tables turns it from true to false.
C11_IsEmptyIffNoTables ==
    [][/\ (last'.op = "IsEmpty" /\ last'.result = "ok")
            => /\ last'.value \in {<<"True">>, <<"False">>}
               /\ last'.value = <<"True">> <=> TablesSeen(work') = {}
               /\ work' = work
       /\ (/\ last'.op \in EnterOps
           /\ last'.result = "ok"
           /\ init_script_file_name = NoScript
           /\ TablesSeen(AtConnect) = {})
            => Returned(Q_COUNT_TABLES, TRUE)' = <<"True">>
       /\ (/\ last'.op = "Execute"
           /\ last'.result = "ok"
           /\ last'.steps = <<"create">>
           /\ TablesSeen(work) = {})
            => /\ Returned(Q_COUNT_TABLES, TRUE) = <<"True">>
               /\ Returned(Q_COUNT_TABLES, TRUE)' = <<"False">>]_vars

\* C11 witness: IsEmpty() has returned false on an in-memory handle without
\* init script, after the caller created a table.
C11_Witness ==
    /\ last.op = "IsEmpty"
    /\ last.value = <<"False">>
    /\ db_file_name = MemLoc
    /\ init_script_file_name = NoScript
    /\ CountTables(work) = 1

\* C12: ListTableNames() on an open handle returns the names of the tables
\* now in the database, each once and nothing else.
C12_ExactTableNames ==
    (last.op = "ListTableNames" /\ last.result = "ok")
      => /\ {last.value[i] : i \in DOMAIN last.value} = TablesSeen(work)
         /\ Len(last.value) = Cardinality(TablesSeen(work))

\* C12 witness: t1 came from the init script, t2 from the caller, and
\* ListTableNames() returned the two.
C12_Witness ==
    /\ last.op = "ListTableNames"
    /\ init_script_file_name = "points.sql"
    /\ last.value = <<"t1", "t2">>

\* the operations that run __exit__
ExitOps == {"Close", "ScopeExit"}

\* C13: Close() releases the cursor before the connection, and in no state,
\* the one between the two releases included, does the handle hold a cursor
\* whose connection is closed.
C13_CursorBeforeConnection ==
    /\ [](cursor # NULL => connLive)
    /\ [][last'.op \in ExitOps
            => /\ (cursor # NULL /\ connection # NULL)
                    => last'.steps = <<"cursor.close", "connection.close">>
               /\ ExitCursor(cursor).cursor # NULL => connLive
               /\ cursor' # NULL => connLive'
               /\ (cursor' = NULL /\ connection' = NULL) => ~connLive']_vars

\* C13 witness: a Close() on an open handle has released the two.
C13_Witness ==
    /\ last.op = "Close"
    /\ last.held # NULL
    /\ last.steps = <<"cursor.close", "connection.close">>
    /\ cursor = NULL
    /\ ~connLive

\* the content after the first k statements of a script, applied in file order
RECURSIVE ApplyPrefix(_, _, _)
ApplyPrefix(db, stmts, k) ==
    IF k = 0 THEN db
    ELSE ApplyStmt(ApplyPrefix(db, stmts, k - 1), stmts[k]).db

\* the statements of a script that the engine would refuse in their turn
Failing(db, stmts, locked) ==
    {i \in DOMAIN stmts : StmtFails(ApplyPrefix(db, stmts, i - 1), stmts[i], locked)}

\* number of statements ahead of the first failing one
Ahead(db, stmts, locked) ==
    IF Failing(db, stmts, locked) = {} THEN Len(stmts)
    ELSE (CHOOSE i \in Failing(db, stmts, locked) :
             \A j \in Failing(db, stmts, locked) : i <= j) - 1

\* C14: ExecuteScript() on an open handle runs the statements of a readable
\* file in file order; when statement k is the first to fail, statements
\* 1..k-1 and no others have been executed (and are committed) and the error
\* reaches the caller; with no failing statement the whole file is applied.
C14_ScriptOrderAndStop ==
    [][(last'.op = "ExecuteScript" /\ last'.ran)
        => LET name == last'.steps[2]
               stmts == ScriptFile(name)
               n == Ahead(work, stmts, Locked)
           IN /\ Readable(name)
              /\ last'.steps = <<"open_script", name, "executescript">>
                                 \o Kinds(stmts, n)
              /\ work' = ApplyPrefix(work, stmts, n)
              /\ (IF db_file_name = MemLoc THEN mem' ELSE file') = work'
              /\ last'.result = (IF n = Len(stmts) THEN "ok"
                                 ELSE "OperationalError")]_vars

\* C14 witness: ExecuteScript("bad.sql") has created t1, failed at the second
\* statement and has not run the insert that follows.
C14_Witness ==
    /\ last.op = "ExecuteScript"
    /\ last.steps = <<"open_script", "bad.sql", "executescript", "create">>
    /\ last.result = "OperationalError"
    /\ HasTable(work, "t1")
    /\ RowsOf(work, "t1") = 0

\* C15: StartTransaction() on an open handle with no transaction active
\* succeeds and leaves a transaction active.
C15_StartTransactionBegins ==
    [][(/\ last'.op = "StartTransaction"
        /\ connLive
        /\ cursor # NULL
        /\ ~txn)
       => (last'.result = "ok" /\ txn')]_vars

\* C16: the engine connections the handle has created and not closed are at
\* most one, and there is one exactly when the connection field is non-null.
C16_AtMostOneConnection ==
    /\ LiveCount <= 1
    /\ LiveCount = 1 <=> connection # NULL

\* the whole of a script applied to an empty database
FullEffects(script) ==
    ApplyPrefix(EmptyDb, ScriptFile(script), Len(ScriptFile(script)))

C18_OpenWithoutScriptIsReadOnly ==
    [][/\ (/\ last'.op \in EnterOps
           /\ init_script_file_name = NoScript
           /\ db_file_name # BadLoc)
        => /\ last'.result = "ok"
           /\ last'.steps = <<"connect", "cursor">>
           /\ ~last'.ran
           /\ work' = AtConnect
           /\ file' = file
           /\ fileWriter' = fileWriter
           /\ db_file_name = MemLoc => mem' = AtConnect
       /\ last'.op \in EnterOps \cup ExitOps
        => /\ db_file_name' = db_file_name
           /\ init_script_file_name' = init_script_file_name
           /\ file' = file \/ last'.ran]_vars

\* C18 witness: an Open() without init script on a file that holds a table
\* with a row.
C18_Witness ==
    /\ last.op = "Open"
    /\ last.result = "ok"
    /\ init_script_file_name = NoScript
    /\ db_file_name = FileLoc
    /\ last.steps = <<"connect", "cursor">>
    /\ HasTable(file, "t1")
    /\ RowsOf(file, "t1") = 1
    /\ work = file

====
